---- MODULE Spec2Model ----
(***************************************************************************)
(* Model of src/problem1/run_qiopt_cli.py: one run of the command-line     *)
(* program, from the parsed arguments to the exit of the process.          *)
(*                                                                         *)
(* A text (Python str) is a sequence of atoms; concatenation is \o.        *)
(* A path (pathlib.Path) is the sequence of its components, each a text.   *)
(* An optional path is a record [some, path]; None has some = FALSE.       *)
(***************************************************************************)
EXTENDS Integers, Sequences, FiniteSets, TLC

\* ---- bounds of the model ----
MaxPolls == 2
MaxLines == 3

\* ---- module constants of the program ----
CLOUD_PLATFORM_URL == "https://cloudos.qboard.tech"
WORKSPACE_ID == "workspace-59693eed57c441bc9aa5af4a8b931be8"
IMAGE_NAME == "cloud-platform-quantum-modules-qboard"

VARIABLES
    args,              \* argparse namespace: input_file, output_file, user_data_file, gpu, run_id
    fs,                \* the paths that exist on the local file system
    readable,          \* whether opening/reading the credentials file succeeds
    cred_lines,        \* the lines of the credentials file
    pc,                \* position of the run in the script
    output_file_path,  \* the optional path computed at lines 119-122
    username,          \* local of process_file: [bound, val]
    password,          \* local of process_file: [bound, val]
    process,           \* the last process descriptor: [id, status]
    calls,             \* history of time.sleep and client operations, in order
    out,               \* the lines written to standard output by print_status
    err,               \* the exception that ended the run: [type, msg]
    handler,           \* which handler took the exception
    exit_code,         \* {} while running, {0} or {1} once the process ended
    remote,            \* the remote workspace: stored files, solver jobs, downloads
    me,                \* which launched process the variables above belong to
    peer               \* the saved variables of the other process of a parallel launch

vars == <<args, fs, readable, cred_lines, pc, output_file_path, username,
          password, process, calls, out, err, handler, exit_code, remote, me, peer>>

\* ---- optional values ----
None == [some |-> FALSE, path |-> <<>>]
Some(p) == [some |-> TRUE, path |-> p]
Unbound == [bound |-> FALSE, val |-> <<>>]
Bound(v) == [bound |-> TRUE, val |-> v]
NoErr == [type |-> "none", msg |-> <<>>]
NoProcess == [id |-> 0, status |-> "none"]

\* ---- texts ----
DigitChar == <<"0", "1", "2", "3", "4", "5", "6", "7", "8", "9">>

RECURSIVE Digits(_)
Digits(n) ==
    IF n < 10 THEN <<DigitChar[n + 1]>>
    ELSE Digits(n \div 10) \o <<DigitChar[(n % 10) + 1]>>

\* f"{n}" for an int n
IntStr(n) == IF n < 0 THEN <<"-">> \o Digits(0 - n) ELSE Digits(n)

Whitespace == {" ", "\n", "\t"}

RECURSIVE LStrip(_)
LStrip(s) ==
    IF s # <<>> /\ Head(s) \in Whitespace THEN LStrip(Tail(s)) ELSE s

RECURSIVE RStrip(_)
RStrip(s) ==
    IF s # <<>> /\ s[Len(s)] \in Whitespace
    THEN RStrip(SubSeq(s, 1, Len(s) - 1)) ELSE s

\* str.strip()
Strip(s) == RStrip(LStrip(s))

\* itertools.islice(f, n) read to the end
Islice(f, n) == SubSeq(f, 1, IF Len(f) < n THEN Len(f) ELSE n)

\* ---- paths ----
RECURSIVE SplitParts(_, _, _)
SplitParts(s, cur, acc) ==
    LET flush == IF cur = <<>> \/ cur = <<".">> THEN acc ELSE Append(acc, cur)
    IN  IF s = <<>> THEN flush
        ELSE IF Head(s) = "/" THEN SplitParts(Tail(s), <<>>, flush)
        ELSE SplitParts(Tail(s), Append(cur, Head(s)), acc)

\* Path(text)
PathOf(s) == SplitParts(s, <<>>, <<>>)

RECURSIVE JoinParts(_)
JoinParts(p) ==
    IF Len(p) = 1 THEN p[1] ELSE p[1] \o <<"/">> \o JoinParts(Tail(p))

\* str(path), as used by an f-string
Fspath(p) == IF p = <<>> THEN <<".">> ELSE JoinParts(p)

\* path.name
Name(p) == IF p = <<>> THEN <<>> ELSE p[Len(p)]

\* path.parent
Parent(p) == IF p = <<>> THEN <<>> ELSE SubSeq(p, 1, Len(p) - 1)

\* path.with_name(n), defined when path.name is not empty
WithName(p, n) == Append(Parent(p), n)

\* path.exists()
Exists(p) == p \in fs

\* ---- print_status ----
Stamp == "%Y-%m-%d %H:%M:%S"
PrintStatus(msg) == <<Stamp, " ">> \o msg

\* ---- exceptions ----
Exc(t, m) == [type |-> t, msg |-> m]
ClientError(op) == Exc("ClientError", <<"client error in ", op>>)

\* ---- the inputs of a run ----
InputFiles == { <<<<"in.txt">>>>, <<<<"d">>, <<"in.txt">>>> }
OutputFiles == { None, Some(<<>>), Some(<<<<"out.json">>>>),
                 Some(<<<<"d">>, <<"out.json">>>>) }
UserFiles == { <<<<"USER_DATA.txt">>>> }
RunIds == {-1, 0, 12}
FilePaths == { <<<<"d">>>>, <<<<"in.txt">>>>, <<<<"d">>, <<"in.txt">>>>,
               <<<<"USER_DATA.txt">>>> }
\* the current directory exists, and so does the directory of an existing file
FileSystems ==
    { S \cup {<<>>} : S \in { T \in SUBSET FilePaths :
                              \A p \in T : Parent(p) = <<>> \/ Parent(p) \in T } }
\* line i of a credentials file: the username, the password, then blank lines
CredLine(i) ==
    IF i = 1 THEN <<"alice", "\n">>
    ELSE IF i = 2 THEN <<" ", "s3cret", " ", "\n">>
    ELSE <<"\n">>
\* the credentials files of 0 to MaxLines lines
CredFiles == { [i \in 1..n |-> CredLine(i)] : n \in 0..MaxLines }

\* ---- the remote platform ----
Statuses == {"CREATED", "SUBMITTED", "RUNNING", "COMPLETED", "FAILED", "CANCELLED"}
ProcIds == {1, 2}
Outputs == { <<"solver log">>, <<"solver error">> }
ClientOps == {"CloudPlatformClient", "login", "put_file", "create_process",
              "describe_process", "get_process_output", "get_file"}

Call(op, a, ok, val) == [op |-> op, args |-> a, ok |-> ok, val |-> val]

Count(op) == Cardinality({ i \in 1..Len(calls) : calls[i].op = op })

\* ---- the remote workspace ----
\* nothing stored, no solver started, nothing downloaded
EmptyRemote == [files |-> {}, jobs |-> {}, fetched |-> {}]

\* no other process was launched
NoPeer == [pc |-> "none"]

\* the file stored under the name n, by whom and of which kind
Lookup(files, n) ==
    IF \E f \in files : f.name = n
    THEN CHOOSE f \in files : f.name = n
    ELSE [name |-> n, kind |-> "absent", by |-> 0]

\* storing a file under the name n replaces the one stored there
Stored(files, n, kind, by) ==
    { f \in files : f.name # n } \cup { [name |-> n, kind |-> kind, by |-> by] }

\* the name in the workspace of the path /workspace/{name} given to the solver
WorkspaceName(t) == IF t # <<>> /\ Head(t) = "/workspace/" THEN Tail(t) ELSE t

\* put_file returned: the file is stored under dest_path
AfterPutFile(r, a, by) ==
    [r EXCEPT !.files = Stored(@, a.dest_path, "input", by)]

\* the solver of a finished process has written its --output file
AfterCompleted(r, by) ==
    IF \E j \in r.jobs : j.by = by
    THEN LET j == CHOOSE j \in r.jobs : j.by = by
         IN  [r EXCEPT !.files = Stored(@, j.output, "output", by)]
    ELSE r

\* create_process returned the descriptor p: the solver runs on the file
\* stored under its --matrix name
AfterCreateProcess(r, a, p, by) ==
    LET started ==
          [r EXCEPT !.jobs = @ \cup { [by |-> by, id |-> p.id,
                                      matrix |-> Lookup(r.files, WorkspaceName(a.args[3])),
                                      output |-> WorkspaceName(a.args[9])] }]
    IN  IF p.status = "COMPLETED" THEN AfterCompleted(started, by) ELSE started

\* describe_process returned the descriptor p
AfterDescribeProcess(r, p, by) ==
    IF p.status = "COMPLETED" THEN AfterCompleted(r, by) ELSE r

\* get_file returned: the file stored under source_path was written to dest_path
AfterGetFile(r, a, by) ==
    [r EXCEPT !.fetched = @ \cup { [by |-> by, dest_path |-> a.dest_path,
                                    file |-> Lookup(r.files, a.source_path)] }]

\* ---- the script (lines 109-131) ----
Init ==
    /\ args \in [input_file : InputFiles, output_file : OutputFiles,
                 user_data_file : UserFiles, gpu : BOOLEAN, run_id : RunIds]
    /\ fs \in FileSystems
    /\ readable \in BOOLEAN
    /\ cred_lines \in CredFiles
    /\ pc = "main"
    /\ output_file_path = None
    /\ username = Unbound
    /\ password = Unbound
    /\ process = NoProcess
    /\ calls = <<>>
    /\ out = <<>>
    /\ err = NoErr
    /\ handler = "none"
    /\ exit_code = {}
    /\ remote = EmptyRemote
    /\ me = 1
    /\ peer = NoPeer

\* which except clause of lines 126-131 takes an exception raised in process_file
HandlerOf(e) ==
    IF e.type = "FileNotFoundError" THEN "FileNotFoundError" ELSE "Exception"

\* the line the handler prints
HandlerLine(e) ==
    IF e.type = "FileNotFoundError"
    THEN PrintStatus(<<"Error: ">> \o e.msg)
    ELSE PrintStatus(<<"An unexpected error occurred: ">> \o e.msg)

\* a login that raised is logged and the workflow goes on to the upload
Propagate_SwallowLogin(p) == IF p = "login" THEN "put_file" ELSE "done"

\* a login that raised is tried again
Propagate_RetryLogin(p) == IF p = "login" THEN "login" ELSE "done"

\* where an exception raised at position p inside process_file continues:
\* nothing between the raise and lines 126-131 catches it
Propagate(p) == "done"

\* an exception e raised inside the try block at position p, after the lines o
\* were printed: lines 126-131 print it and exit(1)
Raise(p, e, o) ==
    /\ err' = e
    /\ handler' = HandlerOf(e)
    /\ out' = Append(o, HandlerLine(e))
    /\ exit_code' = {1}
    /\ pc' = Propagate(p)

\* an exception e raised outside the try block: the interpreter prints the
\* traceback to standard error and ends the process with status 1
Uncaught(e) ==
    /\ err' = e
    /\ handler' = "uncaught"
    /\ exit_code' = {1}
    /\ pc' = "done"
    /\ UNCHANGED out

\* lines 119-122 with the run id left out of the name
RunIdPath_IgnoresRunId(a) ==
    IF a.run_id # -1 /\ ~a.output_file.some
    THEN [raised |-> TRUE, path |-> None,
          exc |-> Exc("AttributeError",
                      <<"'NoneType' object has no attribute 'with_name'">>)]
    ELSE [raised |-> FALSE, exc |-> NoErr, path |-> a.output_file]

\* lines 119-122 with the prefixed name made a path of its own, not with_name
RunIdPath_DropsParent(a) ==
    IF a.run_id # -1
    THEN IF ~a.output_file.some
         THEN [raised |-> TRUE, path |-> None,
               exc |-> Exc("AttributeError",
                           <<"'NoneType' object has no attribute 'name'">>)]
         ELSE [raised |-> FALSE, exc |-> NoErr,
               path |-> Some(PathOf(IntStr(a.run_id) \o <<"_">>
                                      \o Name(a.output_file.path)))]
    ELSE [raised |-> FALSE, exc |-> NoErr, path |-> a.output_file]

\* lines 119-122: the result is [raised, exc, path]
RunIdPath(a) ==
    IF a.run_id # -1
    THEN IF ~a.output_file.some
         THEN [raised |-> TRUE, path |-> None,
               exc |-> Exc("AttributeError",
                           <<"'NoneType' object has no attribute 'with_name'">>)]
         ELSE IF Name(a.output_file.path) = <<>>
         THEN [raised |-> TRUE, path |-> None,
               exc |-> Exc("ValueError",
                           Fspath(a.output_file.path) \o <<" has an empty name">>)]
         ELSE [raised |-> FALSE, exc |-> NoErr,
               path |-> Some(WithName(a.output_file.path,
                                      IntStr(a.run_id) \o <<"_">>
                                        \o Name(a.output_file.path)))]
    ELSE [raised |-> FALSE, exc |-> NoErr, path |-> a.output_file]

Main ==
    /\ pc = "main"
    /\ LET r == RunIdPath(args)
       IN  IF r.raised
           THEN /\ Uncaught(r.exc)
                /\ UNCHANGED output_file_path
           ELSE /\ output_file_path' = r.path
                /\ pc' = "process_file"
                /\ UNCHANGED <<out, err, handler, exit_code>>
    /\ UNCHANGED <<remote, me, peer, args, fs, readable, cred_lines, username, password, process, calls>>

\* ---- process_file (lines 17-36) ----
\* lines 20-27 without the first check
CheckPaths_NoInputCheck(input_file_path, ofp, user_data_path) ==
    IF ofp.some /\ ~Exists(Parent(ofp.path))
    THEN Exc("FileNotFoundError",
             <<"Output directory does not exist: ">> \o Fspath(Parent(ofp.path)))
    ELSE IF ~Exists(user_data_path)
    THEN IF ofp.some
         THEN Exc("FileNotFoundError",
                  <<"User data file does not exist: ">> \o Fspath(Parent(ofp.path)))
         ELSE Exc("AttributeError",
                  <<"'NoneType' object has no attribute 'parent'">>)
    ELSE NoErr

\* lines 20-27: the exception the three checks raise, NoErr when they pass
CheckPaths(input_file_path, ofp, user_data_path) ==
    IF ~Exists(input_file_path)
    THEN Exc("FileNotFoundError",
             <<"Input file not found: ">> \o Fspath(input_file_path))
    ELSE IF ofp.some /\ ~Exists(Parent(ofp.path))
    THEN Exc("FileNotFoundError",
             <<"Output directory does not exist: ">> \o Fspath(Parent(ofp.path)))
    ELSE IF ~Exists(user_data_path)
    THEN IF ofp.some
         THEN Exc("FileNotFoundError",
                  <<"User data file does not exist: ">> \o Fspath(Parent(ofp.path)))
         ELSE Exc("AttributeError",
                  <<"'NoneType' object has no attribute 'parent'">>)
    ELSE NoErr

ProcessFileChecks ==
    /\ pc = "process_file"
    /\ LET e == CheckPaths(args.input_file, output_file_path, args.user_data_file)
       IN  IF e # NoErr
           THEN Raise("process_file", e, out)
           ELSE /\ pc' = "load_credentials"
                /\ UNCHANGED <<out, err, handler, exit_code>>
    /\ UNCHANGED <<remote, me, peer, args, fs, readable, cred_lines, output_file_path, username,
                   password, process, calls>>

\* line 31: the stripped lines the unpacking receives
ReadLines(f) == [i \in 1..Len(Islice(f, 2)) |-> Strip(Islice(f, 2)[i])]

\* line 31 with missing lines read as empty texts
Unpack_PadsMissing(vals) ==
    [raised |-> FALSE, exc |-> NoErr,
     username |-> Bound(IF Len(vals) >= 1 THEN vals[1] ELSE <<>>),
     password |-> Bound(IF Len(vals) >= 2 THEN vals[2] ELSE <<>>)]

\* line 31: unpacking into (username, password); [raised, exc, username, password]
Unpack(vals) ==
    IF Len(vals) # 2
    THEN [raised |-> TRUE, username |-> Unbound, password |-> Unbound,
          exc |-> Exc("ValueError",
                      <<"not enough values to unpack (expected 2, got ">>
                        \o IntStr(Len(vals)) \o <<")">>)]
    ELSE [raised |-> FALSE, exc |-> NoErr,
          username |-> Bound(vals[1]), password |-> Bound(vals[2])]

\* line 36: reading the locals to pass them on; NoErr when both are bound
ReadLocals(u, p) ==
    IF ~u.bound
    THEN Exc("UnboundLocalError",
             <<"local variable 'username' referenced before assignment">>)
    ELSE IF ~p.bound
    THEN Exc("UnboundLocalError",
             <<"local variable 'password' referenced before assignment">>)
    ELSE NoErr

\* lines 29-36: open() raises OSError for a file that does not exist or cannot
\* be read; the except clause logs it and execution continues at line 36
LoadCredentials ==
    /\ pc = "load_credentials"
    /\ IF ~Exists(args.user_data_file) \/ ~readable
       THEN LET o == Append(out, PrintStatus(<<"ERROR: Could not open/read file: ">>
                                               \o Name(args.user_data_file)))
                e == ReadLocals(username, password)
            IN  /\ IF e # NoErr
                   THEN Raise("load_credentials", e, o)
                   ELSE /\ out' = o
                        /\ pc' = "client"
                        /\ UNCHANGED <<err, handler, exit_code>>
                /\ UNCHANGED <<username, password>>
       ELSE LET r == Unpack(ReadLines(cred_lines))
            IN  IF r.raised
                THEN /\ Raise("load_credentials", r.exc, out)
                     /\ UNCHANGED <<username, password>>
                ELSE LET o == Append(out, PrintStatus(<<"username='">> \o r.username.val
                                                        \o <<"'">>))
                         e == ReadLocals(r.username, r.password)
                     IN  /\ username' = r.username
                         /\ password' = r.password
                         /\ IF e # NoErr
                            THEN Raise("load_credentials", e, o)
                            ELSE /\ out' = o
                                 /\ pc' = "client"
                                 /\ UNCHANGED <<err, handler, exit_code>>
    /\ UNCHANGED <<remote, me, peer, args, fs, readable, cred_lines, output_file_path, process, calls>>

\* ---- run_cloudos_task (lines 39-106) ----
\* line 44
InputFilename(input_file_path) == Name(input_file_path)

\* lines 45-48 without the default
OutputFilename_NoDefault(ofp) == Name(ofp.path)

\* lines 45-48, as the text an f-string makes of it
OutputFilename(ofp) ==
    IF ofp.some THEN Name(ofp.path) ELSE Fspath(PathOf(<<"output.json">>))

\* lines 57-72 without lines 71-72
DefaultArgs_NoGpuFlag(input_filename, output_filename, use_gpu) ==
    << <<"solve">>, <<"--matrix">>, <<"/workspace/">> \o input_filename,
       <<"--num-runs">>, <<"10">>, <<"--num-steps">>, <<"1000">>,
       <<"--output">>, <<"/workspace/">> \o output_filename,
       <<"--verbose">>, <<"1">> >>

\* lines 57-72
DefaultArgs(input_filename, output_filename, use_gpu) ==
    << <<"solve">>, <<"--matrix">>, <<"/workspace/">> \o input_filename,
       <<"--num-runs">>, <<"10">>, <<"--num-steps">>, <<"1000">>,
       <<"--output">>, <<"/workspace/">> \o output_filename,
       <<"--verbose">>, <<"1">> >>
    \o (IF use_gpu THEN << <<"--gpu">> >> ELSE <<>>)

\* lines 74-83: the keyword arguments of create_process
CreateArgs(input_file_path, ofp, use_gpu) ==
    [workspace_id |-> WORKSPACE_ID, image |-> IMAGE_NAME, name |-> "run qiopt",
     cpu |-> "4", ram |-> "4", gpu |-> IF use_gpu = TRUE THEN 1 ELSE 0,
     command |-> "qiopt",
     args |-> DefaultArgs(InputFilename(input_file_path), OutputFilename(ofp), use_gpu)]

\* lines 88-91 with the sleep left out
LoopPc_NoSleep(status) ==
    IF status = "COMPLETED" THEN "get_process_output"
    ELSE IF status \in {"CREATED", "SUBMITTED", "RUNNING", "COMPLETED"}
    THEN "describe_process"
    ELSE "fail_output"

\* lines 88-91 with the membership test of line 89 deciding before line 88
LoopPc_WhitelistFirst(status) ==
    IF status \in {"CREATED", "SUBMITTED", "RUNNING", "COMPLETED"} THEN "sleep"
    ELSE IF status = "COMPLETED" THEN "get_process_output"
    ELSE "fail_output"

\* lines 88-91 with FAILED taken for a status still in progress
LoopPc_FailedInProgress(status) ==
    IF status = "COMPLETED" THEN "get_process_output"
    ELSE IF status \in {"CREATED", "SUBMITTED", "RUNNING", "FAILED"} THEN "sleep"
    ELSE "fail_output"

\* lines 88-91: where the loop goes on a status
LoopPc(status) ==
    IF status = "COMPLETED" THEN "get_process_output"
    ELSE IF status \in {"CREATED", "SUBMITTED", "RUNNING", "COMPLETED"} THEN "sleep"
    ELSE "fail_output"

\* line 103 without the test
WantsDownload_Always(ofp) == TRUE

\* line 103: whether the result file is downloaded
WantsDownload(ofp) == ofp.some

\* the end of the script: exit status 0
Finish(o) ==
    /\ out' = o
    /\ pc' = "done"
    /\ exit_code' = {0}
    /\ UNCHANGED <<err, handler>>

\* line 41
NewClient ==
    /\ pc = "client"
    /\ LET a == [cloud_platform_url |-> CLOUD_PLATFORM_URL]
       IN  \/ /\ calls' = Append(calls, Call("CloudPlatformClient", a, TRUE, <<>>))
              /\ pc' = "login"
              /\ UNCHANGED <<out, err, handler, exit_code>>
           \/ /\ calls' = Append(calls, Call("CloudPlatformClient", a, FALSE, <<>>))
              /\ Raise("client", ClientError("CloudPlatformClient"), out)
    /\ UNCHANGED <<remote, me, peer, args, fs, readable, cred_lines, output_file_path, username,
                   password, process>>

\* lines 43-50
Login ==
    /\ pc = "login"
    /\ LET a == [username |-> username.val, password |-> password.val]
       IN  \/ /\ calls' = Append(calls, Call("login", a, TRUE, <<>>))
              /\ out' = Append(out, PrintStatus(<<"Loading file ">>
                                   \o Fspath(args.input_file) \o <<" on the server...">>))
              /\ pc' = "put_file"
              /\ UNCHANGED <<err, handler, exit_code>>
           \/ /\ calls' = Append(calls, Call("login", a, FALSE, <<>>))
              /\ Raise("login", ClientError("login"), out)
    /\ UNCHANGED <<remote, me, peer, args, fs, readable, cred_lines, output_file_path, username,
                   password, process>>

\* lines 51-55
PutFile ==
    /\ pc = "put_file"
    /\ LET a == [source_path |-> args.input_file,
                 dest_path |-> InputFilename(args.input_file),
                 workspace_id |-> WORKSPACE_ID]
       IN  \/ /\ calls' = Append(calls, Call("put_file", a, TRUE, <<>>))
              /\ remote' = AfterPutFile(remote, a, me)
              /\ out' = out \o << PrintStatus(<<"File ">> \o InputFilename(args.input_file)
                                                \o <<" loaded on the server.">>),
                                  PrintStatus(<<"Creating process...">>) >>
              /\ pc' = "create_process"
              /\ UNCHANGED <<err, handler, exit_code>>
           \/ /\ calls' = Append(calls, Call("put_file", a, FALSE, <<>>))
              /\ UNCHANGED remote
              /\ Raise("put_file", ClientError("put_file"), out)
    /\ UNCHANGED <<me, peer, args, fs, readable, cred_lines, output_file_path, username,
                   password, process>>

\* lines 57-88
CreateProcess ==
    /\ pc = "create_process"
    /\ LET a == CreateArgs(args.input_file, output_file_path, args.gpu)
       IN  \/ \E id \in ProcIds, st \in Statuses :
                LET p == [id |-> id, status |-> st]
                IN  /\ calls' = Append(calls, Call("create_process", a, TRUE, p))
                    /\ remote' = AfterCreateProcess(remote, a, p, me)
                    /\ process' = p
                    /\ out' = out \o << PrintStatus(<<"Process created.">>),
                                        PrintStatus(<<"Waiting for process to complete...">>) >>
                    /\ pc' = LoopPc(st)
                    /\ UNCHANGED <<err, handler, exit_code>>
           \/ /\ calls' = Append(calls, Call("create_process", a, FALSE, <<>>))
              /\ Raise("create_process", ClientError("create_process"), out)
              /\ UNCHANGED <<process, remote>>
    /\ UNCHANGED <<me, peer, args, fs, readable, cred_lines, output_file_path, username, password>>

\* line 90
Sleep ==
    /\ pc = "sleep"
    /\ Count("describe_process") < MaxPolls
    /\ calls' = Append(calls, Call("sleep", [seconds |-> 1], TRUE, <<>>))
    /\ pc' = "describe_process"
    /\ UNCHANGED <<remote, me, peer, args, fs, readable, cred_lines, output_file_path, username,
                   password, process, out, err, handler, exit_code>>

\* lines 95 and 88
DescribeProcess ==
    /\ pc = "describe_process"
    /\ LET a == [id |-> process.id]
       IN  \/ \E st \in Statuses :
                LET p == [id |-> process.id, status |-> st]
                IN  /\ calls' = Append(calls, Call("describe_process", a, TRUE, p))
                    /\ remote' = AfterDescribeProcess(remote, p, me)
                    /\ process' = p
                    /\ pc' = LoopPc(st)
                    /\ UNCHANGED <<out, err, handler, exit_code>>
           \/ /\ calls' = Append(calls, Call("describe_process", a, FALSE, <<>>))
              /\ Raise("describe_process", ClientError("describe_process"), out)
              /\ UNCHANGED <<process, remote>>
    /\ UNCHANGED <<me, peer, args, fs, readable, cred_lines, output_file_path, username, password>>

\* lines 92-94
FailOutput ==
    /\ pc = "fail_output"
    /\ LET a == [id |-> process.id]
       IN  \/ \E msg \in Outputs :
                /\ calls' = Append(calls, Call("get_process_output", a, TRUE, msg))
                /\ Raise("fail_output", Exc("ValueError", msg),
                         Append(out, PrintStatus(<<"The process was not completed normally">>)))
           \/ /\ calls' = Append(calls, Call("get_process_output", a, FALSE, <<>>))
              /\ Raise("fail_output", ClientError("get_process_output"), out)
    /\ UNCHANGED <<remote, me, peer, args, fs, readable, cred_lines, output_file_path, username,
                   password, process>>

\* lines 96-104
GetProcessOutput ==
    /\ pc = "get_process_output"
    /\ LET a == [id |-> process.id]
           o == Append(out, PrintStatus(<<"Process completed.">>))
       IN  \/ \E msg \in Outputs :
                LET o2 == Append(o, PrintStatus(<<"Process_output: ">> \o msg))
                IN  /\ calls' = Append(calls, Call("get_process_output", a, TRUE, msg))
                    /\ IF WantsDownload(output_file_path)
                       THEN /\ out' = Append(o2, PrintStatus(<<"Getting output file ">>
                                              \o OutputFilename(output_file_path)
                                              \o <<" from the server...">>))
                            /\ pc' = "get_file"
                            /\ UNCHANGED <<err, handler, exit_code>>
                       ELSE Finish(o2)
           \/ /\ calls' = Append(calls, Call("get_process_output", a, FALSE, <<>>))
              /\ Raise("get_process_output", ClientError("get_process_output"), o)
    /\ UNCHANGED <<remote, me, peer, args, fs, readable, cred_lines, output_file_path, username,
                   password, process>>

\* lines 105-106
GetFile ==
    /\ pc = "get_file"
    /\ LET a == [source_path |-> OutputFilename(output_file_path),
                 dest_path |-> output_file_path.path,
                 workspace_id |-> WORKSPACE_ID]
       IN  \/ /\ calls' = Append(calls, Call("get_file", a, TRUE, <<>>))
              /\ remote' = AfterGetFile(remote, a, me)
              /\ Finish(Append(out, PrintStatus(<<"File saved locally to ">>
                                     \o Fspath(output_file_path.path) \o <<".">>)))
           \/ /\ calls' = Append(calls, Call("get_file", a, FALSE, <<>>))
              /\ Raise("get_file", ClientError("get_file"), out)
              /\ UNCHANGED remote
    /\ UNCHANGED <<me, peer, args, fs, readable, cred_lines, output_file_path, username,
                   password, process>>

Next ==
    \/ Main
    \/ ProcessFileChecks
    \/ LoadCredentials
    \/ NewClient
    \/ Login
    \/ PutFile
    \/ CreateProcess
    \/ Sleep
    \/ DescribeProcess
    \/ FailOutput
    \/ GetProcessOutput
    \/ GetFile

Spec == Init /\ [][Next]_vars

\* ---- the polling loop without the bound on the recorded history ----
\* line 90, once the history holds MaxPolls polls: the sleep is taken and not recorded
SleepUnrecorded ==
    /\ pc = "sleep"
    /\ Count("describe_process") >= MaxPolls
    /\ pc' = "describe_process"
    /\ UNCHANGED <<remote, me, peer, args, fs, readable, cred_lines, output_file_path,
                   username, password, process, calls, out, err, handler, exit_code>>

\* lines 95 and 88, while the history has room for the call
DescribeRecorded ==
    /\ Count("describe_process") < MaxPolls
    /\ DescribeProcess

\* lines 95 and 88, once the history holds MaxPolls polls: the call is not recorded
DescribeUnrecorded ==
    /\ pc = "describe_process"
    /\ Count("describe_process") >= MaxPolls
    /\ \/ \E st \in Statuses :
            LET p == [id |-> process.id, status |-> st]
            IN  /\ process' = p
                /\ remote' = AfterDescribeProcess(remote, p, me)
                /\ pc' = LoopPc(st)
                /\ UNCHANGED <<out, err, handler, exit_code>>
       \/ /\ Raise("describe_process", ClientError("describe_process"), out)
          /\ UNCHANGED <<process, remote>>
    /\ UNCHANGED <<me, peer, args, fs, readable, cred_lines, output_file_path,
                   username, password, calls>>

LiveNext ==
    \/ Main
    \/ ProcessFileChecks
    \/ LoadCredentials
    \/ NewClient
    \/ Login
    \/ PutFile
    \/ CreateProcess
    \/ Sleep
    \/ SleepUnrecorded
    \/ DescribeRecorded
    \/ DescribeUnrecorded
    \/ FailOutput
    \/ GetProcessOutput
    \/ GetFile

\* the runs that can submit a job: every file is there and the credentials
\* file holds a username and a password
LiveInit ==
    /\ Init
    /\ fs = FilePaths \cup {<<>>}
    /\ readable
    /\ cred_lines = << <<"alice", "\n">>, <<" ", "s3cret", " ", "\n">> >>

\* the script is one thread that takes its next step whenever it has one, and
\* the platform answers every call, with a result or an error
LiveSpec == LiveInit /\ [][LiveNext]_vars /\ WF_vars(LiveNext)

\* ---- a parallel launch: two processes of the script, one workspace ----
\* the variables of the process that is executing
Saved ==
    [args |-> args, pc |-> pc, output_file_path |-> output_file_path,
     username |-> username, password |-> password, process |-> process,
     calls |-> calls, out |-> out, err |-> err, handler |-> handler,
     exit_code |-> exit_code]

\* the variables of a process started with the arguments a
Started(a) ==
    [args |-> a, pc |-> "main", output_file_path |-> None,
     username |-> Unbound, password |-> Unbound, process |-> NoProcess,
     calls |-> <<>>, out |-> <<>>, err |-> NoErr, handler |-> "none",
     exit_code |-> {}]

\* the operating system lets the other process run
Switch ==
    /\ peer.pc \notin {"none", "done"}
    /\ peer' = Saved
    /\ me' = 3 - me
    /\ args' = peer.args
    /\ pc' = peer.pc
    /\ output_file_path' = peer.output_file_path
    /\ username' = peer.username
    /\ password' = peer.password
    /\ process' = peer.process
    /\ calls' = peer.calls
    /\ out' = peer.out
    /\ err' = peer.err
    /\ handler' = peer.handler
    /\ exit_code' = peer.exit_code
    /\ UNCHANGED <<remote, fs, readable, cred_lines>>

ParInputFiles == InputFiles \cup { <<<<"m.txt">>>> }
ParOutputFiles == { Some(<<<<"out.json">>>>), Some(<<<<"d">>, <<"out.json">>>>) }
ParStatuses == {"RUNNING", "COMPLETED", "FAILED"}

\* two launches with the same --output-file and different --run-id, on a
\* machine where every file is there
ParInit ==
    /\ args \in [input_file : {<<<<"in.txt">>>>}, output_file : ParOutputFiles,
                 user_data_file : UserFiles, gpu : {FALSE}, run_id : RunIds]
    /\ peer \in { Started(a) :
                    a \in [input_file : ParInputFiles, output_file : ParOutputFiles,
                           user_data_file : UserFiles, gpu : {FALSE}, run_id : RunIds] }
    /\ peer.args.output_file = args.output_file
    /\ peer.args.run_id # args.run_id
    /\ me = 1
    /\ fs = FilePaths \cup {<<>>, <<<<"m.txt">>>>}
    /\ readable = TRUE
    /\ cred_lines = << <<"alice", "\n">>, <<" ", "s3cret", " ", "\n">> >>
    /\ pc = "main"
    /\ output_file_path = None
    /\ username = Unbound
    /\ password = Unbound
    /\ process = NoProcess
    /\ calls = <<>>
    /\ out = <<>>
    /\ err = NoErr
    /\ handler = "none"
    /\ exit_code = {}
    /\ remote = EmptyRemote

\* the platform of the parallel launch: a process has the id of its launch,
\* reports RUNNING, COMPLETED or FAILED, and has one output
ParPlatform ==
    /\ process' \in {NoProcess} \cup [id : {me}, status : ParStatuses]
    /\ \A i \in 1..Len(calls') :
          (calls'[i].op = "get_process_output" /\ calls'[i].ok) =>
              calls'[i].val = <<"solver log">>

ParNext ==
    \/ Main /\ ParPlatform
    \/ ProcessFileChecks /\ ParPlatform
    \/ LoadCredentials /\ ParPlatform
    \/ NewClient /\ ParPlatform
    \/ Login /\ ParPlatform
    \/ PutFile /\ ParPlatform
    \/ CreateProcess /\ ParPlatform
    \/ Sleep /\ ParPlatform
    \/ DescribeProcess /\ ParPlatform
    \/ FailOutput /\ ParPlatform
    \/ GetProcessOutput /\ ParPlatform
    \/ GetFile /\ ParPlatform
    \/ Switch

ParSpec == ParInit /\ [][ParNext]_vars

\* =========================== properties ===========================
\* the three existence checks of the input validator, on the command line's paths
InputMissing == ~Exists(args.input_file)
OutputDirMissing == args.output_file.some /\ ~Exists(Parent(args.output_file.path))
CredentialsMissing == ~Exists(args.user_data_file)
AllPathsExist == ~InputMissing /\ ~OutputDirMissing /\ ~CredentialsMissing

\* process_file was called: lines 119-122 raised nothing
EnteredProcessFile == pc # "main" /\ handler # "uncaught"

ClientCalled == \E i \in 1..Len(calls) : calls[i].op \in ClientOps

\* the last line of standard output is the line l
LastPrinted(l) == Len(out) >= 1 /\ out[Len(out)] = l

Printed(l) == \E k \in 1..Len(out) : out[k] = l

\* the text msg ends with the text t
EndsWith(msg, t) ==
    /\ Len(msg) >= Len(t)
    /\ SubSeq(msg, Len(msg) - Len(t) + 1, Len(msg)) = t

\* C1: when the input file, the parent directory of the output path or the
\* credentials file is missing, no client operation is ever invoked and the
\* run ends in failure; a missing input file seen by process_file is reported
\* as a file-not-found error.
C1_NoNetworkOnMissingPath ==
    (InputMissing \/ OutputDirMissing \/ CredentialsMissing) =>
        /\ ~ClientCalled
        /\ pc \notin {"client", "login", "put_file", "create_process", "sleep",
                      "describe_process", "fail_output", "get_process_output", "get_file"}
        /\ (pc = "done" => exit_code = {1})
        /\ (pc = "done" /\ InputMissing /\ EnteredProcessFile =>
                /\ handler = "FileNotFoundError"
                /\ err = Exc("FileNotFoundError",
                             <<"Input file not found: ">> \o Fspath(args.input_file)))

C1_Witness ==
    /\ pc = "done"
    /\ InputMissing
    /\ handler = "FileNotFoundError"
    /\ calls = <<>>

\* the statuses the specification calls whitelisted
Whitelisted == {"CREATED", "SUBMITTED", "RUNNING", "COMPLETED"}

\* call i is a create_process or describe_process that returned a descriptor
ObservedAt(i) ==
    /\ calls[i].op \in {"create_process", "describe_process"}
    /\ calls[i].ok

\* C2: once create_process or describe_process has returned a status that is
\* not whitelisted, the only call that follows is one get_process_output (no
\* sleep, no describe_process, no get_file), the run then ends with exit code
\* 1, and the output that call returned is the message of the error, printed
\* by the top-level handler.
C2_FailedStatusStopsPolling ==
    \A i \in 1..Len(calls) :
        (ObservedAt(i) /\ calls[i].val.status \notin Whitelisted) =>
            \/ /\ i = Len(calls)
               /\ pc = "fail_output"
            \/ /\ i + 1 = Len(calls)
               /\ calls[i + 1].op = "get_process_output"
               /\ calls[i + 1].args.id = calls[i].val.id
               /\ pc = "done"
               /\ exit_code = {1}
               /\ (calls[i + 1].ok =>
                      /\ err = Exc("ValueError", calls[i + 1].val)
                      /\ LastPrinted(PrintStatus(<<"An unexpected error occurred: ">>
                                                   \o calls[i + 1].val)))

C2_Witness ==
    /\ pc = "done"
    /\ err.type = "ValueError"
    /\ \E i \in 1..Len(calls) :
          /\ calls[i].op = "describe_process"
          /\ calls[i].ok
          /\ calls[i].val.status = "FAILED"
          /\ i + 1 = Len(calls)
          /\ calls[i + 1].ok
          /\ err.msg = calls[i + 1].val

\* C3: once create_process or describe_process has returned COMPLETED, no
\* sleep and no describe_process follows; get_process_output is called exactly
\* once; when it returns, its output is printed and get_file is then called
\* exactly once if an output path was requested and not at all otherwise.
C3_CompletedFetchesAndDownloads ==
    \A i \in 1..Len(calls) :
        (ObservedAt(i) /\ calls[i].val.status = "COMPLETED") =>
            /\ \A j \in (i + 1)..Len(calls) :
                  calls[j].op \in {"get_process_output", "get_file"}
            /\ pc \in {"get_process_output", "get_file", "done"}
            /\ (pc = "get_process_output" => i = Len(calls))
            /\ (pc # "get_process_output" =>
                  /\ Len(calls) > i
                  /\ calls[i + 1].op = "get_process_output"
                  /\ calls[i + 1].args.id = calls[i].val.id
                  /\ Count("get_process_output") = 1
                  /\ (calls[i + 1].ok =>
                        Printed(PrintStatus(<<"Process_output: ">> \o calls[i + 1].val)))
                  /\ (pc = "get_file" =>
                        calls[i + 1].ok /\ args.output_file.some /\ Count("get_file") = 0)
                  /\ (pc = "done" /\ calls[i + 1].ok =>
                        Count("get_file") = (IF args.output_file.some THEN 1 ELSE 0))
                  /\ (pc = "done" /\ ~calls[i + 1].ok => Count("get_file") = 0))

C3_Witness ==
    /\ pc = "done"
    /\ exit_code = {0}
    /\ Count("get_file") = 1
    /\ Count("get_process_output") = 1
    /\ \E i \in 1..Len(calls) :
          /\ calls[i].op = "describe_process"
          /\ calls[i].ok
          /\ calls[i].val.status = "COMPLETED"

\* C4: the run exits with code 0 exactly when it finished without error, and
\* every error is taken by one of the two top-level handlers, printed by
\* print_status and followed by exit code 1. (Stated as claimed; the code
\* violates it when --run-id is given without --output-file.)
C4_EveryFailureHandled ==
    pc = "done" =>
        /\ (exit_code = {0}) <=> (err = NoErr)
        /\ (err # NoErr =>
              /\ handler \in {"FileNotFoundError", "Exception"}
              /\ exit_code = {1}
              /\ LastPrinted(HandlerLine(err)))

\* the path whose existence check fails first
FirstMissing ==
    IF InputMissing THEN args.input_file
    ELSE IF OutputDirMissing THEN Parent(args.output_file.path)
    ELSE args.user_data_file

\* C5: when one of the three existence checks fails, the run ends with a
\* file-not-found error whose message names the missing path. (Stated as
\* claimed; the code violates it for the credentials file.)
C5_MissingPathNamed ==
    (pc = "done" /\ EnteredProcessFile /\ ~AllPathsExist) =>
        /\ err.type = "FileNotFoundError"
        /\ handler = "FileNotFoundError"
        /\ EndsWith(err.msg, Fspath(FirstMissing))

\* C6: when the credentials file exists but cannot be read, the loader logs
\* the failure and the run goes on to call login. (Stated as claimed; the code
\* never reaches login.)
C6_UnreadableCredentialsReachLogin ==
    (pc = "done" /\ EnteredProcessFile /\ AllPathsExist /\ ~readable) =>
        /\ Printed(PrintStatus(<<"ERROR: Could not open/read file: ">>
                                 \o Name(args.user_data_file)))
        /\ Count("login") = 1

\* C7: with a credentials file of fewer than two lines the unpacking raises,
\* the client is never built and login never called, username and password
\* stay unassigned, and the run ends with exit code 1.
C7_ShortCredentialsFail ==
    Len(cred_lines) < 2 =>
        /\ ~ClientCalled
        /\ username = Unbound /\ password = Unbound
        /\ (pc = "done" => exit_code = {1})
        /\ (pc = "done" /\ EnteredProcessFile /\ AllPathsExist /\ readable =>
              err.type = "ValueError" /\ handler = "Exception")

C7_Witness ==
    /\ pc = "done"
    /\ Len(cred_lines) = 1
    /\ AllPathsExist /\ readable
    /\ err.type = "ValueError"
    /\ exit_code = {1}

\* element k of the argument list of the create_process call i
SolverArg(i, k) == calls[i].args.args[k]

\* C8: without --output-file, get_file is never called, and the --output
\* argument of the solver is /workspace/output.json.
C8_NoOutputFileNoDownload ==
    ~args.output_file.some =>
        /\ \A i \in 1..Len(calls) : calls[i].op # "get_file"
        /\ pc # "get_file"
        /\ \A i \in 1..Len(calls) :
              calls[i].op = "create_process" =>
                  /\ SolverArg(i, 8) = <<"--output">>
                  /\ SolverArg(i, 9) = <<"/workspace/", "output.json">>

C8_Witness ==
    /\ ~args.output_file.some
    /\ pc = "done"
    /\ exit_code = {0}
    /\ Count("create_process") = 1
    /\ Count("describe_process") >= 1

\* C9: with a run id other than the default -1, the path handed to
\* process_file has the parent directory of --output-file and the name
\* {run_id}_{name of --output-file}, and that is the path get_file writes to;
\* with the default run id the path of --output-file is handed on unchanged.
C9_RunIdPrefixesOutputName ==
    EnteredProcessFile =>
        /\ (args.run_id # -1 =>
              /\ output_file_path.some
              /\ Parent(output_file_path.path) = Parent(args.output_file.path)
              /\ Name(output_file_path.path) =
                    IntStr(args.run_id) \o <<"_">> \o Name(args.output_file.path))
        /\ (args.run_id = 12 /\ args.output_file = Some(<<<<"d">>, <<"out.json">>>>) =>
              Fspath(output_file_path.path) = <<"d", "/", "1", "2", "_", "out.json">>)
        /\ (args.run_id = -1 => output_file_path = args.output_file)
        /\ \A i \in 1..Len(calls) :
              calls[i].op = "get_file" => calls[i].args.dest_path = output_file_path.path

C9_Witness ==
    /\ pc = "done"
    /\ exit_code = {0}
    /\ args.run_id = 12
    /\ args.output_file = Some(<<<<"d">>, <<"out.json">>>>)
    /\ calls[Len(calls)].op = "get_file"
    /\ calls[Len(calls)].args.dest_path = <<<<"d">>, <<"1", "2", "_", "out.json">>>>

\* C10: the client is built and login, put_file and create_process are each
\* called at most once, and a client operation that raised is the last call
\* of the run, which ends at once with exit code 1.
C10_NoRetry ==
    /\ Count("CloudPlatformClient") <= 1
    /\ Count("login") <= 1
    /\ Count("put_file") <= 1
    /\ Count("create_process") <= 1
    /\ \A i \in 1..Len(calls) :
          ~calls[i].ok =>
              /\ i = Len(calls)
              /\ pc = "done"
              /\ exit_code = {1}
              /\ err = ClientError(calls[i].op)

C10_Witness ==
    /\ pc = "done"
    /\ exit_code = {1}
    /\ Len(calls) = 3
    /\ calls[3].op = "put_file"
    /\ ~calls[3].ok

\* the place of an operation in the fixed order of the workflow
StepRank(op) ==
    CASE op = "CloudPlatformClient" -> 0
      [] op = "login" -> 1
      [] op = "put_file" -> 2
      [] op = "create_process" -> 3
      [] op \in {"sleep", "describe_process"} -> 4
      [] op = "get_process_output" -> 5
      [] op = "get_file" -> 6

\* C11: the calls occur in the order authenticate, upload, launch, poll, fetch
\* output, download: a later call never belongs to an earlier step, only the
\* polling step repeats, each single step is preceded by the step before it,
\* and every call but the last of the run returned without error.
C11_FixedCallOrder ==
    /\ \A i, j \in 1..Len(calls) :
          i < j =>
              /\ StepRank(calls[i].op) <= StepRank(calls[j].op)
              /\ (StepRank(calls[i].op) = StepRank(calls[j].op) =>
                      StepRank(calls[i].op) \in {4, 5})
    /\ \A j \in 1..Len(calls) :
          /\ (StepRank(calls[j].op) \in 1..3 =>
                  j > 1 /\ StepRank(calls[j - 1].op) = StepRank(calls[j].op) - 1)
          /\ (StepRank(calls[j].op) \in 4..5 =>
                  \E i \in 1..(j - 1) : calls[i].op = "create_process")
          /\ (calls[j].op = "get_file" =>
                  j > 1 /\ calls[j - 1].op = "get_process_output")
    /\ Count("get_process_output") <= 1
    /\ \A i \in 1..(Len(calls) - 1) : calls[i].ok

C11_Witness ==
    /\ pc = "done"
    /\ exit_code = {0}
    /\ Len(calls) = 8
    /\ calls[1].op = "CloudPlatformClient"
    /\ calls[2].op = "login"
    /\ calls[3].op = "put_file"
    /\ calls[4].op = "create_process"
    /\ calls[5].op = "sleep"
    /\ calls[6].op = "describe_process"
    /\ calls[7].op = "get_process_output"
    /\ calls[8].op = "get_file"

\* the statuses the specification calls in progress
InProgress == {"CREATED", "SUBMITTED", "RUNNING"}

\* C12: a describe_process call directly follows one sleep of one second,
\* which directly follows an observation of CREATED, SUBMITTED or RUNNING;
\* such an observation is followed by nothing else than that sleep; and when
\* create_process returns COMPLETED there is no sleep and no describe_process.
C12_PollsWhileInProgress ==
    /\ \A i \in 1..Len(calls) :
          calls[i].op = "describe_process" =>
              /\ i >= 3
              /\ calls[i - 1].op = "sleep"
              /\ calls[i - 1].args.seconds = 1
              /\ ObservedAt(i - 2)
              /\ calls[i - 2].val.status \in InProgress
              /\ calls[i].args.id = calls[i - 2].val.id
    /\ \A i \in 1..Len(calls) :
          calls[i].op = "sleep" =>
              /\ i >= 2
              /\ ObservedAt(i - 1)
              /\ calls[i - 1].val.status \in InProgress
              /\ (i = Len(calls) => pc = "describe_process")
              /\ (i < Len(calls) => calls[i + 1].op = "describe_process")
    /\ \A i \in 1..Len(calls) :
          (ObservedAt(i) /\ calls[i].val.status \in InProgress) =>
              /\ (i = Len(calls) => pc = "sleep")
              /\ (i < Len(calls) => calls[i + 1].op = "sleep")
    /\ \A i \in 1..Len(calls) :
          (calls[i].op = "create_process" /\ calls[i].ok
             /\ calls[i].val.status = "COMPLETED") =>
              Count("sleep") = 0 /\ Count("describe_process") = 0

C12_Witness ==
    /\ pc = "done"
    /\ Count("sleep") = 2
    /\ Count("describe_process") = 2
    /\ calls[4].op = "create_process" /\ calls[4].ok
    /\ calls[4].val.status = "CREATED"
    /\ calls[6].ok /\ calls[6].val.status = "RUNNING"
    /\ calls[8].ok /\ calls[8].val.status = "COMPLETED"

\* the loop of a workflow whose in-progress set is {CREATED, SUBMITTED,
\* RUNNING}, for which COMPLETED is success and anything else a failure
ReferencePc(status) ==
    IF status = "COMPLETED" THEN "get_process_output"
    ELSE IF status \in InProgress THEN "sleep"
    ELSE "fail_output"

ReferenceOp(status) ==
    IF status \in InProgress THEN "sleep" ELSE "get_process_output"

\* C13: after every observed status the workflow is where the reference
\* workflow is and its next sleep or client call is the reference workflow's;
\* in particular no sleep ever follows an observation of COMPLETED.
C13_CompletedNeverContinues ==
    \A i \in 1..Len(calls) :
        ObservedAt(i) =>
            /\ (i = Len(calls) => pc = ReferencePc(calls[i].val.status))
            /\ (i < Len(calls) => calls[i + 1].op = ReferenceOp(calls[i].val.status))
            /\ (calls[i].val.status = "COMPLETED" =>
                    \A j \in (i + 1)..Len(calls) : calls[j].op # "sleep")

C13_Witness ==
    /\ pc = "get_process_output"
    /\ Count("describe_process") = 1
    /\ calls[Len(calls)].op = "describe_process"
    /\ calls[Len(calls)].ok
    /\ calls[Len(calls)].val.status = "COMPLETED"

\* C15: the create_process call has gpu = 1 and the fixed argument list
\* followed by --gpu when --gpu was given, and gpu = 0 and the fixed list
\* alone when it was not; the list names the base name of the input file and
\* the output file name of the run.
C15_GpuFlagConsistent ==
    \A i \in 1..Len(calls) :
        calls[i].op = "create_process" =>
            LET fixed ==
                  << <<"solve">>, <<"--matrix">>,
                     <<"/workspace/">> \o Name(args.input_file),
                     <<"--num-runs">>, <<"10">>, <<"--num-steps">>, <<"1000">>,
                     <<"--output">>,
                     <<"/workspace/">> \o
                        (IF output_file_path.some
                         THEN Name(output_file_path.path)
                         ELSE <<"output.json">>),
                     <<"--verbose">>, <<"1">> >>
            IN  /\ Count("create_process") = 1
                /\ calls[i].args.cpu = "4" /\ calls[i].args.ram = "4"
                /\ calls[i].args.command = "qiopt"
                /\ (args.gpu =>
                      /\ calls[i].args.gpu = 1
                      /\ calls[i].args.args = fixed \o << <<"--gpu">> >>)
                /\ (~args.gpu =>
                      /\ calls[i].args.gpu = 0
                      /\ calls[i].args.args = fixed)

C15_Witness ==
    /\ args.gpu
    /\ Count("create_process") = 1
    /\ calls[4].ok
    /\ calls[4].args.gpu = 1
    /\ Len(calls[4].args.args) = 12
    /\ calls[4].args.args[12] = <<"--gpu">>

\* create_process has returned a descriptor
Submitted == process # NoProcess

\* C14: once the job is submitted, a status outside CREATED, SUBMITTED and
\* RUNNING leads to the end of the run, with exit code 0 exactly when the
\* status is COMPLETED and no client call raised; while the status is in
\* progress and no call raised the run stays in the polling loop, whose next
\* sleep or describe_process is always possible, and it leaves the loop only
\* on a status that is not in progress or on an error of a client call.
C14_PollsUntilTerminal ==
    /\ (Submitted /\ process.status \notin InProgress) ~> (pc = "done")
    /\ [](pc = "done" /\ Submitted =>
            ((exit_code = {0}) <=> (process.status = "COMPLETED" /\ err = NoErr)))
    /\ [](Submitted /\ process.status \in InProgress /\ err = NoErr =>
            /\ pc \in {"sleep", "describe_process"}
            /\ ENABLED (Sleep \/ SleepUnrecorded \/ DescribeRecorded \/ DescribeUnrecorded))
    /\ [][(pc \in {"sleep", "describe_process"}
            /\ pc' \notin {"sleep", "describe_process"}) =>
               (process'.status \notin InProgress \/ err' # NoErr)]_vars

\* the run ended in success after polling longer than the recorded history
C14_Witness ==
    /\ pc = "done"
    /\ exit_code = {0}
    /\ process.status = "COMPLETED"
    /\ Count("describe_process") = MaxPolls
    /\ \A i \in 1..Len(calls) :
          calls[i].op = "describe_process" => calls[i].ok /\ calls[i].val.status = "RUNNING"

\* the variables of launch r of a parallel launch
Launch(r) == IF r = me THEN Saved ELSE peer

\* the calls of the operation op that launch r made
CallsOf(r, op) ==
    { Launch(r).calls[i] : i \in { k \in 1..Len(Launch(r).calls) :
                                     Launch(r).calls[k].op = op } }

\* launch r has passed lines 119-122
LaunchEntered(r) == Launch(r).pc # "main" /\ Launch(r).handler # "uncaught"

\* C16: two launches with the same --output-file and different --run-id have
\* different local output paths, give their solvers different --output names
\* and download from different names; no get_file is for the name the other
\* launch's solver writes, and every download delivers the output written by
\* the solver of the same launch. The uploads are not kept apart: input files
\* with the same base name are stored under the same name.
C16_ParallelOutputsIsolated ==
    /\ (LaunchEntered(1) /\ LaunchEntered(2) =>
          /\ Launch(1).output_file_path # Launch(2).output_file_path
          /\ Parent(Launch(1).output_file_path.path)
               = Parent(Launch(2).output_file_path.path))
    /\ \A c \in CallsOf(1, "create_process"), d \in CallsOf(2, "create_process") :
          /\ c.args.args[8] = <<"--output">> /\ d.args.args[8] = <<"--output">>
          /\ c.args.args[9] # d.args.args[9]
    /\ \A c \in CallsOf(1, "get_file"), d \in CallsOf(2, "get_file") :
          /\ c.args.source_path # d.args.source_path
          /\ c.args.dest_path # d.args.dest_path
    /\ \A r \in {1, 2} :
          \A g \in CallsOf(r, "get_file"), c \in CallsOf(3 - r, "create_process") :
              <<"/workspace/">> \o g.args.source_path # c.args.args[9]
    /\ \A f \in remote.fetched :
          /\ f.file.kind = "output"
          /\ f.file.by = f.by
          /\ f.dest_path = Launch(f.by).output_file_path.path
    /\ \A c \in CallsOf(1, "put_file"), d \in CallsOf(2, "put_file") :
          (c.args.dest_path = d.args.dest_path)
            <=> (Name(Launch(1).args.input_file) = Name(Launch(2).args.input_file))

\* both launches ended in success with their own output downloaded, although
\* the solver of launch 1 ran on the input that launch 2 uploaded
C16_Witness ==
    /\ pc = "done" /\ peer.pc = "done"
    /\ exit_code = {0} /\ peer.exit_code = {0}
    /\ Launch(1).args.input_file # Launch(2).args.input_file
    /\ Cardinality(remote.fetched) = 2
    /\ \A f \in remote.fetched : f.file.kind = "output" /\ f.file.by = f.by
    /\ \E j \in remote.jobs : j.by = 1 /\ j.matrix.kind = "input" /\ j.matrix.by = 2

====
